---- MODULE Spec2Model ----
(***************************************************************************)
(* Weekly availability schedule editor (components/ui/form/Schedule.tsx)   *)
(* and the availability page that hosts it.                                *)
(*                                                                         *)
(* A valid Dayjs value is modelled as <<ms>>, the number of milliseconds   *)
(* elapsed since the local midnight of the day on which the page was       *)
(* loaded ("today", day 0); the invalid Dayjs (valueOf NaN) is <<>>.  The  *)
(* zone is Europe/Amsterdam: a day has 24 hours, in summer or in winter    *)
(* time, but 25 on the day the clocks go back (03:00 -> 02:00) and 23 on   *)
(* the day they go forward (02:00 -> 03:00); that day is today, or a day   *)
(* before or after it.                                                     *)
(*                                                                         *)
(* A value of the form is a Dayjs, or what a load result carried and the   *)
(* form was given as it came: an "HH:mm:ss" text <<h, m, s>>, an ISO-8601  *)
(* text <<day, h, m, s, ms>> in UTC, or null.                              *)
(*                                                                         *)
(* The form keeps two arrays per day: schedule[d], the form values that    *)
(* the pickers write, and fields[d], the array useFieldArray handed to the *)
(* last render, which append / remove / replace bring up to date and a     *)
(* picker does not.  Both are 1-based here, the source's arrays 0-based.   *)
(***************************************************************************)
EXTENDS Integers, Sequences, FiniteSets, TLC

VARIABLES schedule, fields, focus, options, last, nops, server, inflight, query, today

vars == <<schedule, fields, focus, options, last, nops, server, inflight, query, today>>

\* the page's side (what the server holds, the POSTs and the query under
\* way) and the day the page was opened on
pageVars == <<server, inflight, query, today>>

(* ---------------------------- bounds ---------------------------------- *)

\* The user works on the first MaxDay + 1 day blocks only.
MaxDay == 1

\* A session performs at most MaxOps clicks / selections and opens no picker
\* after the last of them.
MaxOps == 3

\* A long session on one day block performs at most MaxChain clicks /
\* selections.
MaxChain == 7

\* The picker options (HH:mm:ss) the user chooses among when they are offered.
Picks == { <<17, 15, 0>>, <<23, 0, 0>> }

(* ---------------------------- dayjs ----------------------------------- *)

Minute == 60 * 1000
Hour   == 60 * Minute
Day    == 24 * Hour

\* The day the page is opened on: summer or winter time with no clock change
\* near, or the kind of the clock change and the day it falls on, counted
\* from today (0 = today).
Todays ==
  { [ kind |-> k, on |-> 0 ] : k \in {"summer", "winter"} }
    \cup { [ kind |-> k, on |-> c ] : k \in {"back", "forward"}, c \in {0 - 1, 0, 1} }

\* what the day of the clock change has more than 24 hours
shiftOn(day) ==
  CASE day.kind = "back"    -> Hour
    [] day.kind = "forward" -> 0 - Hour
    [] OTHER                -> 0

\* the local midnight that begins day k
startOfIndexOn(day, k) ==
  k * Day + ( IF day.on >= 0 /\ k > day.on THEN shiftOn(day)
              ELSE IF day.on < 0 /\ k <= day.on THEN 0 - shiftOn(day)
              ELSE 0 )

\* the day the instant ms falls on
dayIndexOn(day, ms) ==
  IF day.on >= 0
  THEN IF ms < day.on * Day THEN ms \div Day
       ELSE IF ms < (day.on + 1) * Day + shiftOn(day) THEN day.on
       ELSE (ms - shiftOn(day)) \div Day
  ELSE IF ms >= (day.on + 1) * Day THEN ms \div Day
       ELSE IF ms >= day.on * Day - shiftOn(day) THEN day.on
       ELSE (ms + shiftOn(day)) \div Day

\* the wall clock (milliseconds since 00:00:00) at the instant ms
wallClockOn(day, ms) ==
  LET index == dayIndexOn(day, ms)
      elapsed == ms - startOfIndexOn(day, index)
  IN  IF index # day.on THEN elapsed
      ELSE CASE day.kind = "back"    -> IF elapsed < 3 * Hour THEN elapsed
                                                          ELSE elapsed - Hour
             [] day.kind = "forward" -> IF elapsed < 2 * Hour THEN elapsed
                                                          ELSE elapsed + Hour
             [] OTHER                -> elapsed

\* the same, the page being opened today
shift == shiftOn(today)
startOfIndex(k) == startOfIndexOn(today, k)
dayIndex(ms) == dayIndexOn(today, ms)

\* elapsed length of today
Length == startOfIndex(1)

\* a Dayjs that is not a valid date: valueOf() is NaN
Invalid == <<>>

\* the Dayjs of an instant
dayjs(ms) == <<ms>>

isValid(t) == Len(t) = 1

valueOf(t) == t[1]

\* t.add(ms, "milliseconds"); an invalid Dayjs stays invalid
add(t, ms) == IF isValid(t) THEN dayjs(valueOf(t) + ms) ELSE Invalid

\* the local midnight at or before the instant ms
dayStart(ms) == startOfIndex(dayIndex(ms))

\* the last millisecond of the day of the instant ms
dayEnd(ms) == startOfIndex(dayIndex(ms) + 1) - 1

\* t.startOf("day"): the local midnight of t's day
startOfDay(t) == IF isValid(t) THEN dayjs(dayStart(valueOf(t))) ELSE Invalid

\* t.endOf("day"): 23:59:59.999 of t's own day
endOfDay(t) == IF isValid(t) THEN dayjs(dayEnd(valueOf(t))) ELSE Invalid

\* The browser's zone at today's midnight: local time is UTC plus this many
\* minutes, 120 in summer time and 60 in winter time; the clocks go back
\* from summer time and forward from winter time.
utcOffset ==
  CASE today.kind = "summer"  -> 2 * 60
    [] today.kind = "winter"  -> 60
    [] today.kind = "back"    -> IF today.on >= 0 THEN 2 * 60 ELSE 60
    [] today.kind = "forward" -> IF today.on >= 0 THEN 60 ELSE 2 * 60

\* null: JSON.stringify of an invalid Dayjs, and a null in a load result
Null == <<"null", "null">>

\* Dayjs.toJSON, used by JSON.stringify: the ISO-8601 text of the instant in
\* UTC, <<day, hour, minute, second, millisecond>> with day 0 = today (UTC);
\* null for an invalid Dayjs
toJSON(t) ==
  IF isValid(t)
  THEN LET u == valueOf(t) - utcOffset * Minute
       IN  << u \div Day, (u % Day) \div Hour, (u % Hour) \div Minute,
              (u % Minute) \div 1000, u % 1000 >>
  ELSE Null

\* dayjs(text) of an ISO-8601 text: the instant
fromJSON(j) ==
  dayjs(j[1] * Day + j[2] * Hour + j[3] * Minute + j[4] * 1000 + j[5]
          + utcOffset * Minute)

\* dayjs(value) of a value of the form: a Dayjs is itself, an ISO-8601 text
\* its instant; null and an "HH:mm:ss" text are no date
dayjsOf(value) ==
  IF Len(value) <= 1 THEN value
  ELSE IF Len(value) = 5 THEN fromJSON(value)
  ELSE Invalid

\* a.isBefore(b), a.isAfter(b) of two Dayjs: a comparison with an invalid
\* Dayjs compares with NaN and is false
isBefore(a, b) == isValid(a) /\ isValid(b) /\ valueOf(a) < valueOf(b)
isAfter(a, b)  == isValid(a) /\ isValid(b) /\ valueOf(a) > valueOf(b)

\* what format gives for an invalid Dayjs
InvalidDate == <<"Invalid Date">>

\* t.format("HH:mm:ss"): the date and the milliseconds are dropped
formatOn(day, t) ==
  IF isValid(t)
  THEN LET tod == wallClockOn(day, valueOf(t))
       IN  << tod \div Hour, (tod % Hour) \div Minute, (tod % Minute) \div 1000 >>
  ELSE InvalidDate

format(t) == formatOn(today, t)

\* the text is HH:mm:ss with the hour, minute and second in range
isTimeText(text) ==
  /\ Len(text) = 3
  /\ text[1] \in 0..23 /\ text[2] \in 0..59 /\ text[3] \in 0..59

\* dayjs(text, "HH:mm:ss", true): the time of day on today's date; a wall
\* clock time that occurs twice is the first of the two; one that does not
\* occur fails the strict comparison with its own format and is invalid, as
\* is a text that is no time of day
parse(text) ==
  IF ~isTimeText(text) THEN Invalid
  ELSE LET w == text[1] * Hour + text[2] * Minute + text[3] * 1000
       IN  IF today.on # 0 THEN dayjs(w)
           ELSE CASE today.kind = "back" ->
                       dayjs(IF w < 3 * Hour THEN w ELSE w + Hour)
                  [] today.kind = "forward" ->
                       IF w < 2 * Hour THEN dayjs(w)
                       ELSE IF w < 3 * Hour THEN Invalid
                       ELSE dayjs(w - Hour)
                  [] OTHER -> dayjs(w)

\* An optional offset / limit of timeOptions is the set of the values given:
\* the one value, or none.
Undefined == {}

\* !bound: no value was given, or null
missing(bound) == bound = Undefined \/ bound = {Null}

(* ---------------------------- catalog --------------------------------- *)

increment == 15

\* the loop that fills TIMES, from t up to end
RECURSIVE timesFrom(_, _)
timesFrom(t, end) ==
  IF isBefore(t, end) THEN <<t>> \o timesFrom(add(t, increment * Minute), end)
                      ELSE <<>>

\* The loop runs once, when the module is loaded, from dayjs().startOf("day")
\* to dayjs().endOf("day"): what it leaves in TIMES, the page being opened on
\* day.
timesOn ==
  [ day \in Todays |->
      timesFrom(dayjs(startOfIndexOn(day, 0)), dayjs(startOfIndexOn(day, 1) - 1)) ]

TIMES == timesOn[today]

\* getOption of a catalog time, the page being opened on day;
\* label: toLocaleTimeString("nl-NL", hour and minute)
getOption(day, time) ==
  LET text == formatOn(day, time)
  IN  [ value |-> text,
        label |-> IF text # InvalidDate THEN << text[1], text[2] >> ELSE InvalidDate ]

\* Array.prototype.map(getOption)
mapOption(day, times) == [ k \in 1..Len(times) |-> getOption(day, times[k]) ]

\* TIMES.map(getOption): the option of each catalog time, in catalog order
optionsOn ==
  [ day \in Todays |-> mapOption(day, timesOn[day]) ]

\* variant: the bounds themselves pass the filter
keepTime_Inclusive(time, offset, limit) ==
  /\ (missing(limit) \/ \A l \in limit : ~isAfter(time, dayjsOf(l)))
  /\ (missing(offset) \/ \A o \in offset : ~isBefore(time, dayjsOf(o)))

\* the filter of timeOptions; isBefore and isAfter read their argument with
\* dayjs(...)
keepTime(time, offset, limit) ==
  /\ (missing(limit) \/ \A l \in limit : isBefore(time, dayjsOf(l)))
  /\ (missing(offset) \/ \A o \in offset : isAfter(time, dayjsOf(o)))

\* TIMES.filter(...).map(getOption): the options of the catalog times that
\* pass the filter
timeOptions(offset, limit) ==
  LET times == TIMES
      mapped == optionsOn[today]
      kept == SelectSeq([ k \in 1..Len(times) |-> k ],
                        LAMBDA k : keepTime(times[k], offset, limit))
  IN  [ j \in 1..Len(kept) |-> mapped[kept[j]] ]

(* ---------------------------- defaults -------------------------------- *)

defaultDayRange == [ start |-> parse(<<9, 0, 0>>), end |-> parse(<<17, 0, 0>>) ]

\* variant: every day of the week seeded, the weekend included
DEFAULT_SCHEDULE_EveryDay == [ d \in 1..7 |-> <<defaultDayRange>> ]

DEFAULT_SCHEDULE ==
  << <<>>,
     <<defaultDayRange>>,
     <<defaultDayRange>>,
     <<defaultDayRange>>,
     <<defaultDayRange>>,
     <<defaultDayRange>>,
     <<>> >>

(* ---------------------------- day block ------------------------------- *)

\* variant: the new range lasts half an hour
nextRangeOf_HalfHour(fs) ==
  [ start |-> dayjsOf(fs[Len(fs)].end),
    end |-> add(dayjsOf(fs[Len(fs)].end), 30 * Minute) ]

\* the range handleAppend builds from the last element of fields
nextRangeOf(fs) ==
  LET nextRangeStart == dayjsOf(fs[Len(fs)].end)
  IN  [ start |-> nextRangeStart, end |-> add(nextRangeStart, Hour) ]

goesIntoTomorrow(nextRange) == isAfter(nextRange.end, endOfDay(nextRange.start))

\* handleAppend: fs is fields as of the last render, vs the form values the
\* field array's append adds to.  Gives the new form values, whether append
\* was called, and whether the handler threw (reading .end of fields[-1],
\* which is undefined on an empty array).
handleAppend(fs, vs) ==
  IF Len(fs) = 0 THEN [ values |-> vs, appended |-> FALSE, threw |-> TRUE ]
  ELSE IF goesIntoTomorrow(nextRangeOf(fs))
       THEN [ values |-> vs, appended |-> FALSE, threw |-> FALSE ]
       ELSE [ values |-> Append(vs, nextRangeOf(fs)), appended |-> TRUE,
              threw |-> FALSE ]

\* variant: unchecking re-seeds the day instead of clearing it
onCheckbox_Reseeds(checked) == <<defaultDayRange>>

\* the checkbox's onChange
onCheckbox(checked) == IF checked THEN <<defaultDayRange>> ELSE <<>>

\* the checkbox's checked attribute
isChecked(fs) == Len(fs) > 0

\* the plus button is visible
appendVisible(fs) == Len(fs) > 0

\* variant: 0-based index applied to the 1-based sequence
removeAt_OffByOne(vs, index) ==
  [ k \in 1..(Len(vs) - 1) |-> IF k <= index THEN vs[k] ELSE vs[k + 1] ]

\* The element a splice at index takes out, index 1-based here (the source's
\* index + 1): splice counts an index below the first element back from the
\* end (the source's -1 is the last element) and no further than the first
\* element; an index past the last element names none.
spliceAt(vs, index) ==
  IF index >= 1 THEN index
  ELSE IF Len(vs) + index >= 1 THEN Len(vs) + index ELSE 1

\* remove(index) of the field array, which splices one element out of a copy
\* of the values
removeAt(vs, index) ==
  IF spliceAt(vs, index) \in 1..Len(vs)
  THEN [ k \in 1..(Len(vs) - 1) |-> IF k < spliceAt(vs, index) THEN vs[k]
                                                              ELSE vs[k + 1] ]
  ELSE vs

\* variant: the seed object is shared, the write shows in every bucket whose
\* range i is the same object
setPart_Shared(sched, d, i, part, value) ==
  [ e \in 1..7 |->
      IF i <= Len(sched[e]) /\ sched[e][i] = sched[d][i]
      THEN [ sched[e] EXCEPT ![i] = IF part = "start" THEN [ @ EXCEPT !.start = value ]
                                                      ELSE [ @ EXCEPT !.end = value ] ]
      ELSE sched[e] ]

\* field.onChange of the Controller named schedule.<d>.<i>.<part>
setPart(sched, d, i, part, value) ==
  [ sched EXCEPT ![d][i] = IF part = "start" THEN [ @ EXCEPT !.start = value ]
                                              ELSE [ @ EXCEPT !.end = value ] ]

\* variant: a day left without ranges is taken out of the week
setDay_DropsEmpty(sched, d, vs) ==
  IF vs = <<>>
  THEN [ e \in 1..(Len(sched) - 1) |-> IF e < d THEN sched[e] ELSE sched[e + 1] ]
  ELSE [ sched EXCEPT ![d] = vs ]

\* replace / append / remove of the field array named schedule.<d>
setDay(sched, d, vs) == [ sched EXCEPT ![d] = vs ]

(* ---------------------------- state ----------------------------------- *)

NoFocus == <<>>

\* the load result carries no schedule (data.schedule is undefined)
Absent == [ present |-> FALSE, payload |-> <<>>, from |-> <<>> ]

\* the form is mounted, no query was made for it
Idle == [ stage |-> "idle", data |-> Absent, cached |-> FALSE ]

Mounted == query.stage = "idle"

UserDays == 1..(MaxDay + 1)

Record(op, d, i, part, threw) ==
  [ op |-> op, day |-> d, index |-> i, part |-> part, threw |-> threw,
    before |-> schedule, data |-> Absent ]

\* Availability: no persisted schedule, the form starts from DEFAULT_SCHEDULE
Init ==
  /\ today \in Todays
  /\ schedule = DEFAULT_SCHEDULE
  /\ fields = DEFAULT_SCHEDULE
  /\ focus = NoFocus
  /\ options = <<>>
  /\ last = [ op |-> "load", day |-> 0, index |-> 0, part |-> "", threw |-> FALSE,
              before |-> DEFAULT_SCHEDULE, data |-> Absent ]
  /\ nops = 0
  /\ server = Absent
  /\ inflight = <<>>
  /\ query = Idle

\* Pressing a button or the checkbox takes the focus away from a picker:
\* its onBlur runs first and empties the options.
Blurred == focus' = NoFocus /\ options' = <<>>

\* the checkbox's onChange runs: replace
CallOnChange(d, checked) ==
  /\ nops < MaxOps
  /\ schedule' = setDay(schedule, d, onCheckbox(checked))
  /\ fields' = setDay(fields, d, onCheckbox(checked))
  /\ last' = Record(IF checked THEN "enable" ELSE "disable", d, 0, "", FALSE)
  /\ nops' = nops + 1
  /\ UNCHANGED pageVars

\* handleAppend runs: it reads fields, append adds to the form values and
\* brings fields up to date
CallHandleAppend(d) ==
  /\ nops < MaxOps
  /\ schedule' = setDay(schedule, d, handleAppend(fields[d], schedule[d]).values)
  /\ fields' = IF handleAppend(fields[d], schedule[d]).appended
               THEN setDay(fields, d, handleAppend(fields[d], schedule[d]).values)
               ELSE fields
  /\ last' = Record("append", d, 0, "", handleAppend(fields[d], schedule[d]).threw)
  /\ nops' = nops + 1
  /\ UNCHANGED pageVars

\* the trash button's onClick runs: remove(index)
CallRemove(d, i) ==
  /\ nops < MaxOps
  /\ schedule' = setDay(schedule, d, removeAt(schedule[d], i))
  /\ fields' = setDay(fields, d, removeAt(schedule[d], i))
  /\ last' = Record("remove", d, i, "", FALSE)
  /\ nops' = nops + 1
  /\ UNCHANGED pageVars

\* a click on the checkbox, the plus button, a trash button
CheckboxChange(d, checked) == Blurred /\ CallOnChange(d, checked)
AppendClick(d)             == Blurred /\ CallHandleAppend(d)
RemoveClick(d, i)          == Blurred /\ CallRemove(d, i)

\* onFocus of the start or end Select of range i of day d
OnFocus(d, i, part) ==
  /\ i \in 1..Len(schedule[d])
  /\ focus # <<d, i, part>>
  /\ focus' = <<d, i, part>>
  /\ options' = timeOptions({ IF part = "start" THEN schedule[d][i].start
                                                 ELSE schedule[d][i].end }, Undefined)
  /\ UNCHANGED <<schedule, fields, last, nops>>
  /\ UNCHANGED pageVars

Focus(d, i, part) == nops < MaxOps /\ OnFocus(d, i, part)

\* onBlur of the focused Select
Blur ==
  /\ focus # NoFocus
  /\ Blurred
  /\ UNCHANGED <<schedule, fields, last, nops>>
  /\ UNCHANGED pageVars

\* onChange of the focused Select with the k-th offered option: the form
\* value changes, fields does not; the options are recomputed on the next
\* focus only
Select(k) ==
  /\ nops < MaxOps
  /\ focus # NoFocus
  /\ k \in 1..Len(options)
  /\ options[k].value \in Picks
  /\ schedule' = setPart(schedule, focus[1], focus[2], focus[3], parse(options[k].value))
  /\ last' = Record("select", focus[1], focus[2], focus[3], FALSE)
  /\ nops' = nops + 1
  /\ UNCHANGED <<fields, focus, options>>
  /\ UNCHANGED pageVars

\* The user's clicks: the checkbox flips, the plus button needs to be visible.
Toggle == \E d \in UserDays : CheckboxChange(d, ~isChecked(fields[d]))
Plus   == \E d \in UserDays : appendVisible(fields[d]) /\ AppendClick(d)
Trash  == \E d \in UserDays : \E i \in 1..Len(fields[d]) : RemoveClick(d, i)
Enter  == \E d \in UserDays : \E i \in 1..Len(fields[d]) :
            \E part \in {"start", "end"} : Focus(d, i, part)
Choose == \E k \in 1..Len(options) : Select(k)

Next == Toggle \/ Plus \/ Trash \/ Enter \/ Blur \/ Choose

Spec == Init /\ [][Next]_vars

\* The handlers called directly, as a test of the component does: no focus
\* moves and no onBlur runs, so a picker that has the focus keeps it and its
\* options, unless the call takes its row off the page.

\* replace gives every row of day d a new key: its pickers are mounted anew
focusAfterReplace(d) ==
  IF focus # NoFocus /\ focus[1] = d THEN NoFocus ELSE focus

\* remove takes one row of day d off the page, the rows after it move up
focusAfterRemove(d, index) ==
  IF focus = NoFocus \/ focus[1] # d
       \/ spliceAt(schedule[d], index) \notin 1..Len(schedule[d])
  THEN focus
  ELSE IF focus[2] = spliceAt(schedule[d], index) THEN NoFocus
  ELSE IF focus[2] > spliceAt(schedule[d], index)
       THEN << focus[1], focus[2] - 1, focus[3] >>
  ELSE focus

\* the focus after the call; the options of a picker that is gone are gone
FocusLeft(where) ==
  /\ focus' = where
  /\ options' = IF where = NoFocus THEN <<>> ELSE options

\* The checkbox's onChange with either value of checked, handleAppend whatever
\* the field array holds, remove with the valid indices and the ones next to
\* them (0 here is the source's -1).
ChangeAny ==
  \E d \in UserDays : \E checked \in BOOLEAN :
    CallOnChange(d, checked) /\ FocusLeft(focusAfterReplace(d))
AppendAny ==
  \E d \in UserDays : CallHandleAppend(d) /\ FocusLeft(focus)
RemoveAny ==
  \E d \in UserDays : \E i \in 0..(Len(schedule[d]) + 1) :
    CallRemove(d, i) /\ FocusLeft(focusAfterRemove(d, i))

\* between the calls the end pickers are opened, left and chosen from
EnterEnd == \E d \in UserDays : \E i \in 1..Len(fields[d]) : Focus(d, i, "end")

NextDirect == ChangeAny \/ AppendAny \/ RemoveAny \/ EnterEnd \/ Blur \/ Choose

SpecDirect == Init /\ [][NextDirect]_vars


(* ---------------------------- one-day session ------------------------- *)

\* A long session on Monday's block alone: up to MaxChain clicks and
\* selections, the pickers opened being those of the block's last range, whose
\* end the plus button reads.
ChainDays == {2}

ChainDone(op, d, i, part, threw) ==
  /\ nops < MaxChain
  /\ last' = Record(op, d, i, part, threw)
  /\ nops' = nops + 1
  /\ UNCHANGED pageVars

ChainToggle ==
  \E d \in ChainDays :
    /\ schedule' = setDay(schedule, d, onCheckbox(~isChecked(fields[d])))
    /\ fields' = setDay(fields, d, onCheckbox(~isChecked(fields[d])))
    /\ ChainDone(IF isChecked(fields[d]) THEN "disable" ELSE "enable", d, 0, "", FALSE)
    /\ Blurred

ChainPlus ==
  \E d \in ChainDays :
    /\ appendVisible(fields[d])
    /\ schedule' = setDay(schedule, d, handleAppend(fields[d], schedule[d]).values)
    /\ fields' = IF handleAppend(fields[d], schedule[d]).appended
                 THEN setDay(fields, d, handleAppend(fields[d], schedule[d]).values)
                 ELSE fields
    /\ ChainDone("append", d, 0, "", handleAppend(fields[d], schedule[d]).threw)
    /\ Blurred

ChainTrash ==
  \E d \in ChainDays : \E i \in 1..Len(fields[d]) :
    /\ schedule' = setDay(schedule, d, removeAt(schedule[d], i))
    /\ fields' = setDay(fields, d, removeAt(schedule[d], i))
    /\ ChainDone("remove", d, i, "", FALSE)
    /\ Blurred

ChainEnter ==
  \E d \in ChainDays : \E i \in {Len(fields[d])} \ {0} : \E part \in {"start", "end"} :
    /\ nops < MaxChain
    /\ focus # <<d, i, part>>
    /\ focus' = <<d, i, part>>
    /\ options' = timeOptions({ IF part = "start" THEN schedule[d][i].start
                                                   ELSE schedule[d][i].end }, Undefined)
    /\ UNCHANGED <<schedule, fields, last, nops>>
    /\ UNCHANGED pageVars

ChainChoose ==
  \E k \in 1..Len(options) :
    /\ focus # NoFocus
    /\ options[k].value \in Picks
    /\ schedule' = setPart(schedule, focus[1], focus[2], focus[3], parse(options[k].value))
    /\ ChainDone("select", focus[1], focus[2], focus[3], FALSE)
    /\ UNCHANGED <<fields, focus, options>>

NextChain == ChainToggle \/ ChainPlus \/ ChainTrash \/ ChainEnter \/ Blur \/ ChainChoose

SpecChain == Init /\ [][NextChain]_vars

(* ---------------------------- timeOptions alone ----------------------- *)

\* offsets and limits handed to timeOptions: none, an invalid Dayjs, the last
\* millisecond of yesterday, catalog times and times between two catalog
\* times, up to the longest day's last hour
FilterInputs ==
  {Undefined, {Invalid}, {dayjs(0 - 1)}}
    \cup { {dayjs(h * Hour + m * Minute)} : h \in {0, 2, 24}, m \in {0, 7, 45} }

CallTimeOptions(offset, limit) ==
  /\ options' = timeOptions(offset, limit)
  /\ last' = [ op |-> "timeOptions", day |-> 0, index |-> 0, part |-> "",
               threw |-> FALSE, before |-> schedule, data |-> Absent,
               offset |-> offset, limit |-> limit ]
  /\ UNCHANGED <<schedule, fields, focus, nops>>
  /\ UNCHANGED pageVars

NextFilter ==
  \E offset \in FilterInputs : \E limit \in FilterInputs : CallTimeOptions(offset, limit)

SpecFilter == Init /\ [][NextFilter]_vars

(* ---------------------------- page ------------------------------------ *)

\* JSON.stringify of a value of the form: a Dayjs goes through its toJSON, a
\* text and null are written as they are
stringifyValue(value) == IF Len(value) <= 1 THEN toJSON(value) ELSE value

\* JSON.stringify({ schedule })
stringify(sched) ==
  [ d \in 1..Len(sched) |->
      [ i \in 1..Len(sched[d]) |->
          [ start |-> stringifyValue(sched[d][i].start),
            end |-> stringifyValue(sched[d][i].end) ] ] ]

\* variant: the operands of || exchanged
loadSchedule_Swapped(data) == DEFAULT_SCHEDULE

\* defaultValues: data.schedule || DEFAULT_SCHEDULE, the schedule of the load
\* result as it came
loadSchedule(data) == IF data.present THEN data.payload ELSE DEFAULT_SCHEDULE

\* what a POST of the form's schedule carries; from is the schedule it was
\* taken from (history only)
Entry(sched) == [ present |-> TRUE, payload |-> stringify(sched), from |-> sched ]

\* the server keeps the schedule of a request it answers with ok, whole
serverStore(held, entry, ok) == IF ok THEN entry ELSE held

\* a range in the payload shape, { start: "HH:mm:ss", end: "HH:mm:ss" }
PayloadRange(start, end) == [ start |-> start, end |-> end ]

\* Schedules the server holds when the page is opened, in the payload shape:
\* a week with a second range on Monday, and a week that is out of order
\* (Monday ends before it starts, Tuesday's ranges overlap), which a load
\* does not repair.
PersistedSchedules ==
  { [ d \in 1..7 |-> IF d = 2 THEN << PayloadRange(<<9, 0, 0>>, <<17, 0, 0>>),
                                      PayloadRange(<<17, 0, 0>>, <<18, 0, 0>>) >>
                     ELSE IF d \in 3..6 THEN << PayloadRange(<<9, 0, 0>>, <<17, 0, 0>>) >>
                     ELSE <<>> ],
    [ d \in 1..7 |-> IF d = 2 THEN << PayloadRange(<<17, 15, 0>>, <<17, 0, 0>>) >>
                     ELSE IF d = 3 THEN << PayloadRange(<<9, 0, 0>>, <<23, 0, 0>>),
                                           PayloadRange(<<17, 0, 0>>, <<18, 0, 0>>) >>
                     ELSE <<>> ] }

\* a load result that carries the schedule sched
Held(sched) == [ present |-> TRUE, payload |-> sched, from |-> <<>> ]

\* the wall clock w (past 03:00:00) of the day before today
yesterdayAt(w) ==
  dayjs(startOfIndex(0 - 1) + w + (IF today.on = 0 - 1 THEN shift ELSE 0))

\* the POST of the save button pressed on the day before, on a page opened
\* with no schedule persisted and left as it was
SavedYesterday ==
  Entry([ d \in 1..7 |->
            [ i \in 1..Len(DEFAULT_SCHEDULE[d]) |->
                [ start |-> yesterdayAt(9 * Hour), end |-> yesterdayAt(17 * Hour) ] ] ])

\* the request of createSchedule number k
Stage(k) == inflight[k].stage

\* createSchedule number k moves on to the next stage
Advance(k, stage) == inflight' = [ inflight EXCEPT ![k].stage = stage ]

\* Availability is opened: the query is under way, no form yet
InitPage ==
  /\ today \in Todays
  /\ server \in {Absent, SavedYesterday} \cup { Held(sched) : sched \in PersistedSchedules }
  /\ query = [ stage |-> "pending", data |-> Absent, cached |-> FALSE ]
  /\ schedule = <<>>
  /\ fields = <<>>
  /\ focus = NoFocus
  /\ options = <<>>
  /\ last = [ op |-> "open", day |-> 0, index |-> 0, part |-> "", threw |-> FALSE,
              before |-> <<>>, data |-> Absent ]
  /\ nops = 0
  /\ inflight = <<>>

\* the server answers viewer.availability with what it holds
QueryServe ==
  /\ query.stage = "pending"
  /\ query' = [ stage |-> "answered", data |-> server, cached |-> TRUE ]
  /\ UNCHANGED <<schedule, fields, focus, options, last, nops, server, inflight, today>>

\* QueryCell renders success: the Form is built from the query's data
Mount ==
  /\ query.stage = "answered"
  /\ schedule' = loadSchedule(query.data)
  /\ fields' = loadSchedule(query.data)
  /\ last' = [ Record("load", 0, 0, "", FALSE) EXCEPT !.data = query.data ]
  /\ query' = [ query EXCEPT !.stage = "idle" ]
  /\ UNCHANGED <<focus, options, nops, server, inflight, today>>

\* The page is left and opened again: the form is gone.  useQuery gives the
\* new page the result it still has in its cache, if it has one, or none
\* until the server has answered anew.
Reopen ==
  /\ nops < MaxOps
  /\ Mounted
  /\ \E fromCache \in { c \in BOOLEAN : c => query.cached } :
       query' = IF fromCache
                THEN [ query EXCEPT !.stage = "answered" ]
                ELSE [ stage |-> "pending", data |-> Absent, cached |-> FALSE ]
  /\ schedule' = <<>>
  /\ fields' = <<>>
  /\ last' = Record("open", 0, 0, "", FALSE)
  /\ nops' = nops + 1
  /\ Blurred
  /\ UNCHANGED <<server, inflight, today>>

\* the save button: onSubmit calls createSchedule, which runs up to its
\* await of fetch; the POST is on its way
Submit ==
  /\ nops < MaxOps
  /\ Mounted
  /\ inflight' = Append(inflight, [ entry |-> Entry(schedule), stage |-> "sent" ])
  /\ last' = Record("save", 0, 0, "", FALSE)
  /\ nops' = nops + 1
  /\ Blurred
  /\ UNCHANGED <<schedule, fields, server, query, today>>

\* the server handles POST number k: it stores the schedule and answers ok,
\* or answers not ok
Serve(k, ok) ==
  /\ Stage(k) = "sent"
  /\ server' = serverStore(server, inflight[k].entry, ok)
  /\ Advance(k, IF ok THEN "ok" ELSE "refused")
  /\ UNCHANGED <<schedule, fields, focus, options, last, nops, query, today>>

\* the await of fetch resumes: res.ok is tested and res.json() is awaited
Resume(k) ==
  /\ Stage(k) \in {"ok", "refused"}
  /\ Advance(k, IF Stage(k) = "ok" THEN "readingOk" ELSE "readingRefused")
  /\ UNCHANGED <<schedule, fields, focus, options, last, nops, server, query, today>>

\* the await of res.json() resumes: createSchedule returns responseData.data
\* or throws the Error
Settle(k) ==
  /\ Stage(k) \in {"readingOk", "readingRefused"}
  /\ inflight' = [ j \in 1..(Len(inflight) - 1) |->
                     IF j < k THEN inflight[j] ELSE inflight[j + 1] ]
  /\ last' = Record("answer", 0, 0, "", Stage(k) = "readingRefused")
  /\ UNCHANGED <<schedule, fields, focus, options, nops, server, query, today>>

Handle   == \E k \in 1..Len(inflight) : \E ok \in BOOLEAN : Serve(k, ok)
Response == \E k \in 1..Len(inflight) : Resume(k)
Outcome  == \E k \in 1..Len(inflight) : Settle(k)

\* On the page the user edits Monday's block (checkbox, plus, trash and the
\* end picker of its last range, which can be opened after the last click
\* too), saves and opens the page again.
PageDays == {2}

PageToggle == Mounted /\ \E d \in PageDays : CheckboxChange(d, ~isChecked(fields[d]))
PagePlus   == Mounted /\ \E d \in PageDays : appendVisible(fields[d]) /\ AppendClick(d)
PageTrash  == Mounted /\ \E d \in PageDays : \E i \in 1..Len(fields[d]) : RemoveClick(d, i)
PageEnter  == Mounted /\ \E d \in PageDays : \E i \in {Len(fields[d])} \ {0} :
                OnFocus(d, i, "end")

NextPage ==
  \/ PageToggle \/ PagePlus \/ PageTrash \/ PageEnter \/ Blur \/ Choose
  \/ Submit \/ Handle \/ Response \/ Outcome
  \/ Reopen \/ QueryServe \/ Mount

SpecPage == InitPage /\ [][NextPage]_vars

(* ---------------------------- properties ------------------------------ *)

Days == 1..7

\* the bucket the last operation acted on, before and after it
Before == last.before[last.day]
After  == schedule[last.day]

Acted(op) == last.op = op /\ last.day \in Days

\* half-open intervals [start, end) share an instant
Overlap(r, q) ==
  valueOf(r.start) < valueOf(q.end) /\ valueOf(q.start) < valueOf(r.end)

\* the range reads 09:00:00 - 17:00:00
NineToFive(r) == format(r.start) = <<9, 0, 0>> /\ format(r.end) = <<17, 0, 0>>

\* the last end of the bucket plus 60 minutes is after the end of its day
PastEndOfDay(bucket) ==
  valueOf(bucket[Len(bucket)].end) + 60 * 60 * 1000
    > valueOf(endOfDay(bucket[Len(bucket)].end))

\* C1: after any sequence of operations every range of every bucket has
\* start < end (as stated; the start picker breaks it).
C1_StartBeforeEnd ==
  \A d \in Days : \A i \in 1..Len(schedule[d]) :
    valueOf(schedule[d][i].start) < valueOf(schedule[d][i].end)

\* C2: an append whose candidate end (last end + 60 minutes) falls after the
\* end of the last end's day leaves the bucket unchanged, and no range of any
\* bucket ever ends past midnight (as stated; the handler looks at the last
\* end as it was when the block was last rendered).
C2_OvernightGuard ==
  /\ ( Acted("append") /\ Len(Before) > 0 /\ PastEndOfDay(Before) ) => After = Before
  /\ \A d \in Days : \A i \in 1..Len(schedule[d]) :
       valueOf(schedule[d][i].end) <= Length - 1

\* C3: on a non-empty bucket whose last end + 60 minutes is not after the end
\* of the day, append adds exactly one element {start: lastEnd, end: lastEnd +
\* 60min} at the end and keeps the earlier elements in value and order (as
\* stated; the new range starts at the last end of the last render).
C3_AppendAddsNextHour ==
  ( Acted("append") /\ Len(Before) > 0 /\ ~PastEndOfDay(Before) )
  => /\ Len(After) = Len(Before) + 1
     /\ \A k \in 1..Len(Before) : After[k] = Before[k]
     /\ After[Len(After)].start = Before[Len(Before)].end
     /\ valueOf(After[Len(After)].end) = valueOf(Before[Len(Before)].end) + 60 * 60 * 1000

\* C4: a range created by append is disjoint from every earlier element of
\* its bucket (as stated; an end raised by its picker breaks it).
C4_AppendedDisjoint ==
  ( Acted("append") /\ Len(After) = Len(Before) + 1 )
  => \A k \in 1..Len(Before) : ~Overlap(After[Len(After)], After[k])

\* C5: handleAppend on an empty bucket does not throw and leaves the bucket
\* empty (as stated; the handler throws a TypeError).
C5_AppendOnEmptySilent ==
  ( Acted("append") /\ Before = <<>> ) => ( ~last.threw /\ After = <<>> )

\* C6: enable on an empty bucket yields exactly [{09:00:00,17:00:00}], and
\* enable on an enabled bucket leaves it unchanged, all its ranges kept (as
\* stated; the handler replaces the ranges of an enabled bucket by the one
\* default range).
C6_EnableKeepsEnabled ==
  Acted("enable")
  => IF Before = <<>>
     THEN Len(After) = 1 /\ NineToFive(After[1])
     ELSE After = Before

\* C7: disable yields the empty sequence whatever the bucket held, an empty
\* bucket included.
C7_DisableEmpties == Acted("disable") => After = <<>>

\* disable was applied to an empty bucket after an earlier operation
C7_Witness == Acted("disable") /\ Before = <<>> /\ nops >= 2

\* C8: an operation on the bucket of day d leaves the six other buckets
\* unchanged.
C8_OtherDaysUnchanged ==
  last.op \notin {"load", "open"}
  => \A e \in Days : e # last.day => schedule[e] = last.before[e]

\* bucket 1's seed range was edited while bucket 2 still holds the seed
C8_Witness ==
  /\ Acted("select")
  /\ last.day = 2
  /\ After # Before
  /\ Len(Before) = 1
  /\ NineToFive(Before[1])
  /\ schedule[3] = Before

\* C9: the default schedule the session starts from has 7 buckets, buckets 0
\* and 6 empty and buckets 1..5 holding exactly {09:00:00, 17:00:00}.
C9_DefaultSchedule ==
  last.op = "load"
  => /\ Len(schedule) = 7
     /\ schedule[1] = <<>>
     /\ schedule[7] = <<>>
     /\ \A d \in 2..6 : Len(schedule[d]) = 1 /\ NineToFive(schedule[d][1])

\* the freshly loaded form, nothing done yet
C9_Witness == last.op = "load" /\ nops = 0 /\ focus = NoFocus

\* C10: remove(i) with a valid i drops exactly element i; the others keep
\* their values and relative order.
C10_RemoveExactlyOne ==
  Acted("remove")
  => /\ Len(After) = Len(Before) - 1
     /\ After = SubSeq(Before, 1, last.index - 1)
                  \o SubSeq(Before, last.index + 1, Len(Before))

\* the middle one of three ranges was removed
C10_Witness == Acted("remove") /\ Len(Before) = 3 /\ last.index = 2

\* C11: remove with an index out of bounds fails with an error instead of
\* silently doing nothing, and leaves the bucket unchanged (as stated; nothing
\* is thrown: an index past the end removes nothing, the source's index -1
\* removes the last range).
C11_RemoveOutOfRangeFails ==
  ( Acted("remove") /\ last.index \notin 1..Len(Before) )
  => ( last.threw /\ After = Before )

\* C12: the weekly schedule of the form always has exactly 7 buckets, after
\* load (persisted or default) and after every operation, and each bucket is
\* a sequence: a day without availability is the empty sequence.
C12_SevenBuckets ==
  Mounted
  => /\ DOMAIN schedule = 1..7
     /\ \A d \in 1..7 : DOMAIN schedule[d] = 1..Len(schedule[d])

\* Monday of a loaded persisted schedule (its Tuesday holds two ranges) was
\* disabled
C12_Witness ==
  /\ Acted("disable")
  /\ Len(schedule[3]) = 2
  /\ Before # <<>>
  /\ After = <<>>

\* C13: the catalog is the 96 times of day 00:00:00, 00:15:00, .. 23:45:00,
\* each 15 minutes after the one before (as stated; on a day the clocks
\* change the catalog has 100 or 92 entries).
C13_Catalog ==
  /\ Len(TIMES) = 96
  /\ \A k \in 1..Len(TIMES) :
       format(TIMES[k]) = << (k - 1) \div 4, ((k - 1) % 4) * 15, 0 >>

\* C14: timeOptions returns, in catalog order, exactly the catalog times
\* strictly after the offset (when given) and strictly before the limit (when
\* given); without both it returns the whole catalog.  The catalog times are
\* the instants every 15 minutes from today's midnight to its last.
C14_OptionsFiltered ==
  last.op = "timeOptions"
  => LET quarter == 15 * 60 * 1000
         want == { t \in { j * quarter : j \in 0..(Len(TIMES) - 1) } :
                     /\ \A o \in last.offset : o # <<>> /\ t > o[1]
                     /\ \A l \in last.limit : l # <<>> /\ t < l[1] }
         first == CHOOSE t \in want : \A u \in want : t <= u
     IN  /\ Len(options) = Cardinality(want)
         /\ \A k \in 1..Len(options) :
              /\ first + (k - 1) * quarter \in want
              /\ options[k].value = format(<< first + (k - 1) * quarter >>)

\* on the day the clocks go back timeOptions({offset: 02:00, limit: 24 hours
\* after midnight}) gave 02:15:00 .. 02:45:00 twice and on to 22:45:00
C14_Witness ==
  /\ last.op = "timeOptions"
  /\ today = [ kind |-> "back", on |-> 0 ]
  /\ last.offset = { << 2 * 60 * 60 * 1000 >> }
  /\ last.limit = { << 24 * 60 * 60 * 1000 >> }
  /\ Len(options) = 87
  /\ options[1].value = <<2, 15, 0>>
  /\ options[5].value = <<2, 15, 0>>
  /\ options[87].value = <<22, 45, 0>>

\* every start and end of the payload is an "HH:mm:ss" text
InPayloadShape(payload) ==
  \A d \in 1..Len(payload) : \A i \in 1..Len(payload[d]) :
    isTimeText(payload[d][i].start) /\ isTimeText(payload[d][i].end)

\* C15: a save hands the schedule over in the payload shape, 7 arrays of
\* {start: HH:mm:ss, end: HH:mm:ss}, and a schedule that was saved and is
\* loaded again comes back with the same buckets and the same range values in
\* the same order (as stated; the POST carries each Dayjs as the ISO-8601 text
\* of an instant in UTC, and the form is given the texts as they come back).
C15_RoundTrip ==
  /\ \A k \in 1..Len(inflight) :
       /\ Len(inflight[k].entry.payload) = 7
       /\ InPayloadShape(inflight[k].entry.payload)
  /\ ( last.op = "load" /\ last.data.present /\ last.data.from # <<>> )
     => schedule = last.data.from

\* C16: a load result without a schedule starts the session from the default
\* schedule; one with a schedule starts it from exactly that schedule, the
\* very payload the load result carried.
C16_LoadSeed ==
  last.op = "load"
  => IF last.data.present
     THEN schedule = last.data.payload
     ELSE /\ Len(schedule) = 7
          /\ \A d \in {1, 7} : schedule[d] = <<>>
          /\ \A d \in 2..6 : Len(schedule[d]) = 1 /\ NineToFive(schedule[d][1])

\* a persisted schedule whose Monday ends before it starts was loaded and
\* kept as it is
C16_Witness ==
  /\ last.op = "load"
  /\ last.data.present
  /\ schedule[2] = << PayloadRange(<<17, 15, 0>>, <<17, 0, 0>>) >>

\* C17: at most one save request is under way at any time (as stated; a
\* second click on save starts a second POST).
C17_OneSaveInFlight == Len(inflight) <= 1

\* C18: the plus button is available exactly where a click on it would add a
\* range: not on an empty bucket, not when the last end + 60 minutes passes
\* the end of the day (as stated; the button stays visible in the latter case).
C18_PlusOnlyWhenEffective ==
  \A d \in Days :
    appendVisible(fields[d])
    <=> /\ Len(schedule[d]) > 0
        /\ Len(handleAppend(fields[d], schedule[d]).values) = Len(schedule[d]) + 1

\* C19: the options a focused picker offers are strictly after its current
\* value, and every selection strictly increases the edited endpoint (as
\* stated; the options are those of the last focus).
C19_OptionsAfterCurrent ==
  /\ focus # NoFocus
     => \A k \in 1..Len(options) :
          valueOf(parse(options[k].value))
            > valueOf( IF focus[3] = "start" THEN schedule[focus[1]][focus[2]].start
                                             ELSE schedule[focus[1]][focus[2]].end )
  /\ Acted("select")
     => IF last.part = "start"
        THEN valueOf(After[last.index].start) > valueOf(Before[last.index].start)
        ELSE valueOf(After[last.index].end) > valueOf(Before[last.index].end)

\* C20: starting from the default schedule no day bucket ever holds more
\* than 7 ranges.
C20_AtMostSevenRanges == \A d \in Days : Len(schedule[d]) <= 7

\* a bucket holds 7 ranges and the next append was turned down
C20_Witness ==
  /\ Acted("append")
  /\ Len(Before) = 7
  /\ After = Before

TypeOK == nops \in 0..MaxChain
====
